---- MODULE Spec2Model ----
(***************************************************************************)
(* Model of the RizviGPT backend: the LLM service (backend/llm_service.py) *)
(* and the request handlers that use it (backend/app.py).                  *)
(*                                                                         *)
(* A text is a sequence of chunks (TLA+ strings).  Every text the local    *)
(* path inspects character by character is a sequence of one-character     *)
(* chunks; the two fixed persona prompts of the remote path, which are     *)
(* only ever concatenated and compared, are one chunk each.                *)
(***************************************************************************)
EXTENDS Integers, Sequences, FiniteSets, TLC

VARIABLES
    env,          \* process configuration: USE_LOCAL_MODEL, model path, load outcome
    llm_service,  \* app.py global: the active LLMService instance
    nextId,       \* identity of the next LLMService instance to be constructed
    lastCreate,   \* outcome of the most recent create_llm_service() call
    switchLog,    \* responses returned by /switch-model
    reqs,         \* in-flight /chat and /chat/stream requests
    db,           \* db_service: the saved conversations, in save order
    fnIn,         \* function harness: the inputs under test
    fnOut,        \* function harness: the outputs computed so far
    fnPc          \* function harness: position

vars == <<env, llm_service, nextId, lastCreate, switchLog, reqs, db, fnIn, fnOut, fnPc>>

appVars == <<env, llm_service, nextId, lastCreate, switchLog, reqs, db>>
fnVars == <<fnIn, fnOut, fnPc>>

\* an optional argument: Python None, or a value
None == [some |-> FALSE, val |-> <<>>]
Some(v) == [some |-> TRUE, val |-> v]

(***************************************************************************)
(* Bounds                                                                  *)
(***************************************************************************)
MaxHist == 6        \* longest chat history drawn
MaxPieces == 3      \* pieces concatenated into a sampled local output
MaxParaPieces == 4  \* pieces concatenated into a long local output
FillerLen == 300    \* length of the filler piece of a long local output
MaxInstances == 2   \* LLMService instances constructed in one run
NumReqs == 2        \* concurrent requests

(***************************************************************************)
(* Python string primitives                                                *)
(***************************************************************************)
Whitespace == {" ", "\n", "\t"}

Min(S) == CHOOSE x \in S : \A y \in S : x <= y
Max(S) == 0 - Min({0 - x : x \in S})

\* start positions of every occurrence of pat in s
Matches(s, pat) ==
    {i \in 1..(Len(s) - Len(pat) + 1) : \A j \in 1..Len(pat) : s[i + j - 1] = pat[j]}

\* `pat in s`
Contains(s, pat) == Matches(s, pat) # {}

RECURSIVE SplitFrom(_, _, _, _)
SplitFrom(s, sepLen, M, from) ==
    LET later == {i \in M : i >= from}
    IN  IF later = {}
        THEN <<SubSeq(s, from, Len(s))>>
        ELSE LET m == Min(later)
             IN  <<SubSeq(s, from, m - 1)>> \o SplitFrom(s, sepLen, M, m + sepLen)

\* s.split(sep): non-overlapping occurrences, left to right
Split(s, sep) == SplitFrom(s, Len(sep), Matches(s, sep), 1)

RECURSIVE Join(_, _)
Join(parts, sep) ==
    IF parts = <<>> THEN <<>>
    ELSE IF Len(parts) = 1 THEN parts[1]
    ELSE parts[1] \o sep \o Join(Tail(parts), sep)

\* s.replace(old, new)
Replace(s, old, new) == Join(Split(s, old), new)

\* s.strip()
Strip(s) ==
    LET keep == {i \in 1..Len(s) : s[i] \notin Whitespace}
    IN  IF keep = {} THEN <<>> ELSE SubSeq(s, Min(keep), Max(keep))

RECURSIVE WordsFrom(_, _)
WordsFrom(s, from) ==
    LET starts == {i \in from..Len(s) : s[i] \notin Whitespace}
    IN  IF starts = {} THEN <<>>
        ELSE LET a == Min(starts)
                 stops == {i \in a..Len(s) : s[i] \in Whitespace}
                 b == IF stops = {} THEN Len(s) + 1 ELSE Min(stops)
             IN  <<SubSeq(s, a, b - 1)>> \o WordsFrom(s, b)

\* s.split() with no separator: runs of whitespace separate, no empty words
SplitWords(s) == WordsFrom(s, 1)

\* faulty variant of LastN: the first n turns instead of the last n
LastN_first(seq, n) == SubSeq(seq, 1, Min({n, Len(seq)}))

\* seq[-n:]
LastN(seq, n) == SubSeq(seq, Max({1, Len(seq) - n + 1}), Len(seq))

\* Python truthiness of an optional string / list argument
Truthy(v) == v.some /\ v.val # <<>>

RECURSIVE Concat(_)
Concat(parts) == IF parts = <<>> THEN <<>> ELSE parts[1] \o Concat(Tail(parts))

(***************************************************************************)
(* Literals of llm_service.py                                              *)
(***************************************************************************)
QUESTION_LABEL == <<"Q", "u", "e", "s", "t", "i", "o", "n", ":">>
ANSWER_LABEL == <<"A", "n", "s", "w", "e", "r", ":">>
PARAGRAPH_BREAK == <<"\n", "\n">>
NEWLINE == <<"\n">>
SPACE == <<" ">>
CONTEXT_HEADER ==
    <<"C", "o", "n", "t", "e", "x", "t", " ", "f", "r", "o", "m", " ",
      "c", "o", "l", "l", "e", "g", "e", " ",
      "d", "o", "c", "u", "m", "e", "n", "t", "s", ":">>
ParagraphLimit == 500
GroqHistoryTurns == 5
LocalHistoryTurns == 3

GENERATE_SYSTEM_PROMPT ==
    <<"\n            You are RizviGPT, an AI assistant with deep knowledge about the Rizvi College Of Engineering.\n            You have access to college documents, course materials, policies, and procedures.\n            Answer questions accurately based on the provided context. If you don't have enough information, say so.\n            Be helpful, concise, and student-friendly. Be very flexible and elaborate on your answers and do not just retrieve data from the context.\n        ">>
STREAM_SYSTEM_PROMPT ==
    <<"\n            You are RizviGPT, an AI assistant with deep knowledge about the Rizvi College Of Engineering.\n            You have access to college documents, course materials, policies, and procedures.\n            Answer questions accurately based on the provided context. If you don't have enough information, say so.\n            Be helpful, concise, and student-friendly.\n        ">>
CONTEXT_SUFFIX == <<"\n\nRelevant context from college documents:\n">>

(***************************************************************************)
(* LLMService: prompt building                                             *)
(***************************************************************************)
Message(role, content) == [role |-> role, content |-> content]

\* the message list _generate_groq sends
GenerateGroqMessages(query, context, chat_history) ==
    LET system_prompt ==
            IF Truthy(context) THEN GENERATE_SYSTEM_PROMPT \o CONTEXT_SUFFIX \o context.val
            ELSE GENERATE_SYSTEM_PROMPT
        tail == IF Truthy(chat_history) THEN LastN(chat_history.val, GroqHistoryTurns) ELSE <<>>
    IN  <<Message("system", system_prompt)>> \o tail \o <<Message("user", query)>>

\* the message list _stream_groq sends
StreamGroqMessages(query, context, chat_history) ==
    LET system_prompt ==
            IF Truthy(context) THEN STREAM_SYSTEM_PROMPT \o CONTEXT_SUFFIX \o context.val
            ELSE STREAM_SYSTEM_PROMPT
        tail == IF Truthy(chat_history) THEN LastN(chat_history.val, GroqHistoryTurns) ELSE <<>>
    IN  <<Message("system", system_prompt)>> \o tail \o <<Message("user", query)>>

\* one history turn as _build_local_prompt renders it
RenderTurn(msg) ==
    IF msg.role = "user" THEN QUESTION_LABEL \o SPACE \o msg.content
    ELSE ANSWER_LABEL \o SPACE \o msg.content

\* prompt_parts of _build_local_prompt, before the join
LocalPromptParts(query, context, chat_history) ==
    LET ctx == IF Truthy(context) THEN <<CONTEXT_HEADER, context.val, <<>>>> ELSE <<>>
        tail == IF Truthy(chat_history) THEN LastN(chat_history.val, LocalHistoryTurns) ELSE <<>>
        hist == [i \in 1..Len(tail) |-> RenderTurn(tail[i])]
    IN  ctx \o hist \o <<QUESTION_LABEL \o SPACE \o query, ANSWER_LABEL>>

_build_local_prompt(query, context, chat_history) ==
    Join(LocalPromptParts(query, context, chat_history), NEWLINE)

(***************************************************************************)
(* LLMService: local generation, cleaning, simulated streaming             *)
(***************************************************************************)
\* faulty variant of _clean_response: keeps the last paragraph instead of the first
_clean_response_last(response) ==
    LET r1 == IF Contains(response, QUESTION_LABEL)
              THEN Split(response, QUESTION_LABEL)[1]
              ELSE response
        r2 == Strip(Replace(r1, ANSWER_LABEL, <<>>))
        paragraphs == Split(r2, PARAGRAPH_BREAK)
        r3 == IF Len(paragraphs) > 1 /\ Len(r2) > ParagraphLimit
              THEN paragraphs[Len(paragraphs)] ELSE r2
    IN  Strip(r3)

_clean_response(response) ==
    LET r1 == IF Contains(response, QUESTION_LABEL)
              THEN Split(response, QUESTION_LABEL)[1]
              ELSE response
        r2 == Strip(Replace(r1, ANSWER_LABEL, <<>>))
        paragraphs == Split(r2, PARAGRAPH_BREAK)
        r3 == IF Len(paragraphs) > 1 /\ Len(r2) > ParagraphLimit THEN paragraphs[1] ELSE r2
    IN  Strip(r3)

\* the text-generation pipeline echoes the prompt and appends its continuation
Generator(prompt, sampled) == prompt \o sampled

\* response of _generate_local before cleaning: generated_text[len(prompt):].strip()
LocalRawResponse(prompt, sampled) ==
    LET generated_text == Generator(prompt, sampled)
    IN  Strip(SubSeq(generated_text, Len(prompt) + 1, Len(generated_text)))

_generate_local(query, context, chat_history, sampled) ==
    _clean_response(LocalRawResponse(_build_local_prompt(query, context, chat_history), sampled))

\* the fragments the local branch of generate_streaming_response yields
LocalFragments(response) ==
    LET words == SplitWords(response)
    IN  [i \in 1..Len(words) |-> words[i] \o (IF i < Len(words) THEN SPACE ELSE <<>>)]

\* the fragments _stream_groq yields: the deltas that carry text
RECURSIVE GroqFragments(_)
GroqFragments(deltas) ==
    IF deltas = <<>> THEN <<>>
    ELSE (IF deltas[1] # <<>> THEN <<deltas[1]>> ELSE <<>>) \o GroqFragments(Tail(deltas))

(***************************************************************************)
(* Function harness: the inputs drawn, and the calls applied to them       *)
(***************************************************************************)
Seqs(S, n) == UNION {[1..k -> S] : k \in 0..n}

Turns == {Message(r, c) : r \in {"user", "assistant"}, c \in {<<"p">>, <<"r">>}}
Histories == {None} \cup {Some(h) : h \in Seqs(Turns, MaxHist)}
Contexts == {None, Some(<<>>), Some(<<"c", "t", "x">>)}
TheQuery == <<"w", "h", "e", "n", "?">>

Filler == [i \in 1..FillerLen |-> "x"]
LabelPieces ==
    {<<"a">>, SPACE, NEWLINE, ANSWER_LABEL, QUESTION_LABEL,
     <<"A", "n", "s">>, <<"w", "e", "r", ":">>,
     <<"Q", "u", "e", "s">>, <<"t", "i", "o", "n", ":">>}
ParaPieces == {Filler, PARAGRAPH_BREAK, SPACE, <<"y">>}

SampledOutputs == {Concat(ps) : ps \in Seqs(LabelPieces, MaxPieces)}
LongOutputs == {Concat(ps) : ps \in Seqs(ParaPieces, MaxParaPieces)}

FnInput(context, chat_history, sampled) ==
    [query |-> TheQuery, context |-> context, chat_history |-> chat_history,
     sampled |-> sampled]

FnOutInit ==
    [generate_messages |-> None, stream_messages |-> None,
     prompt_parts |-> None, prompt |-> None,
     raw |-> None, response |-> None, fragments |-> None, cleaned_twice |-> None]

\* _generate_groq up to the backend call: the message list it sends
BuildGenerateMessages ==
    /\ fnPc = "prompt"
    /\ fnOut' = [fnOut EXCEPT !.generate_messages =
                    Some(GenerateGroqMessages(fnIn.query, fnIn.context, fnIn.chat_history))]
    /\ fnPc' = "prompt_stream"
    /\ UNCHANGED <<fnIn, appVars>>

\* _stream_groq up to the backend call: the message list it sends
BuildStreamMessages ==
    /\ fnPc = "prompt_stream"
    /\ fnOut' = [fnOut EXCEPT !.stream_messages =
                    Some(StreamGroqMessages(fnIn.query, fnIn.context, fnIn.chat_history))]
    /\ fnPc' = "prompt_local"
    /\ UNCHANGED <<fnIn, appVars>>

\* _build_local_prompt
BuildLocalPrompt ==
    /\ fnPc = "prompt_local"
    /\ fnOut' = [fnOut EXCEPT
                    !.prompt_parts =
                        Some(LocalPromptParts(fnIn.query, fnIn.context, fnIn.chat_history)),
                    !.prompt =
                        Some(_build_local_prompt(fnIn.query, fnIn.context, fnIn.chat_history))]
    /\ fnPc' = "done"
    /\ UNCHANGED <<fnIn, appVars>>

\* generate_response on a local-mode service, the pipeline sampling fnIn.sampled
GenerateLocal ==
    /\ fnPc = "local"
    /\ fnOut' = [fnOut EXCEPT
                    !.raw = Some(LocalRawResponse(
                        _build_local_prompt(fnIn.query, fnIn.context, fnIn.chat_history),
                        fnIn.sampled)),
                    !.response = Some(_generate_local(fnIn.query, fnIn.context,
                                                      fnIn.chat_history, fnIn.sampled))]
    /\ fnPc' = "local_stream"
    /\ UNCHANGED <<fnIn, appVars>>

\* generate_streaming_response on a local-mode service, same sampled output
StreamLocal ==
    /\ fnPc = "local_stream"
    /\ fnOut' = [fnOut EXCEPT !.fragments =
                    Some(LocalFragments(_generate_local(fnIn.query, fnIn.context,
                                                        fnIn.chat_history, fnIn.sampled)))]
    /\ fnPc' = "local_clean"
    /\ UNCHANGED <<fnIn, appVars>>

\* _clean_response applied to an already cleaned response
CleanAgain ==
    /\ fnPc = "local_clean"
    /\ fnOut' = [fnOut EXCEPT !.cleaned_twice = Some(_clean_response(fnOut.response.val))]
    /\ fnPc' = "done"
    /\ UNCHANGED <<fnIn, appVars>>

(***************************************************************************)
(* LLMService construction and the factory                                 *)
(***************************************************************************)
Envs == [use_local_env : BOOLEAN, path_exists : BOOLEAN, load_ok : BOOLEAN]

Constructed(use_local_model) ==
    [raised |-> FALSE, use_local_model |-> use_local_model, fell_back |-> FALSE]
Raised(use_local_model) ==
    [raised |-> TRUE, use_local_model |-> use_local_model, fell_back |-> FALSE]

\* LLMService._init_local_model: ValueError when the path is absent; loading may fail
_init_local_model(e) ==
    IF ~e.path_exists THEN Raised(TRUE)
    ELSE IF ~e.load_ok THEN Raised(TRUE)
    ELSE Constructed(TRUE)

\* LLMService._init_groq
_init_groq == Constructed(FALSE)

\* LLMService.__init__
LLMService(use_local_model, e) ==
    IF use_local_model THEN _init_local_model(e) ELSE _init_groq

\* faulty variant of create_llm_service: no fallback, the constructor's exception escapes
create_llm_service_no_fallback(e) == LLMService(e.use_local_env, e)

create_llm_service(e) ==
    LET first == LLMService(e.use_local_env, e)
    IN  IF first.raised
        THEN [LLMService(FALSE, e) EXCEPT !.fell_back = TRUE]
        ELSE first

Instance(id, created) == [id |-> id, use_local_model |-> created.use_local_model]
NoSvc == [id |-> 0, use_local_model |-> FALSE]

(***************************************************************************)
(* Backend calls                                                           *)
(***************************************************************************)
AppQuery == <<"h", "i">>
AppSampled ==
    {<<"o", "k">>,
     <<" ">> \o ANSWER_LABEL \o <<" ", "a", " ", "b", "\n">> \o QUESTION_LABEL}
AppDeltas == {<< <<"o", "k", " ">>, <<>>, <<"g", "o">> >>, <<>>}

\* what one call of the local pipeline can do: raise, or sample a continuation
LocalResults ==
    {[ok |-> FALSE, text |-> <<>>, deltas |-> <<>>, stream_fails |-> FALSE]}
    \cup {[ok |-> TRUE, text |-> t, deltas |-> <<>>, stream_fails |-> FALSE] : t \in AppSampled}

\* what one chat.completions.create call can do: raise, or return a completion;
\* a streamed completion may also break off after its deltas
GroqResults(stream) ==
    {[ok |-> FALSE, text |-> <<>>, deltas |-> <<>>, stream_fails |-> FALSE]}
    \cup {[ok |-> TRUE, text |-> Concat(d), deltas |-> d, stream_fails |-> f] :
            d \in AppDeltas, f \in (IF stream THEN BOOLEAN ELSE {FALSE})}

BackendResults(svc, stream) ==
    IF svc.use_local_model THEN LocalResults ELSE GroqResults(stream)

Step(name, svc) == [step |-> name, id |-> svc.id, local |-> svc.use_local_model]

\* faulty variant of InvokeBackend: a failed call is tried a second time
InvokeBackend_retry(q, result) ==
    [q EXCEPT !.backend_calls = @ + (IF result.ok THEN 1 ELSE 2),
              !.invoke_failed = ~result.ok,
              !.steps = @ \cup {Step("backend", q.svc)}]

\* the single backend invocation of _generate_groq / _generate_local / _stream_groq
InvokeBackend(q, result) ==
    [q EXCEPT !.backend_calls = @ + 1,
              !.invoke_failed = ~result.ok,
              !.steps = @ \cup {Step("backend", q.svc)}]

(***************************************************************************)
(* app.py: requests                                                        *)
(***************************************************************************)
Reqs == 1..NumReqs

\* requests are numbered in the order they arrive
Arrives(r) == reqs[r].pc = "idle" /\ \A k \in 1..(r - 1) : reqs[k].pc # "idle"

IdleReq ==
    [kind |-> "none", pc |-> "idle", svc |-> NoSvc, resolves |-> 0,
     backend_calls |-> 0, invoke_failed |-> FALSE, stream_fails |-> FALSE,
     steps |-> {}, pending |-> <<>>, yielded |-> <<>>,
     full_response |-> <<>>, response |-> None]

\* llm_service.<method>(...): the global is read once and the call is bound to it
Resolve(q, global) == [q EXCEPT !.svc = global, !.resolves = @ + 1]

\* generate_response on the resolved instance
GenerateResponse(q, result) ==
    LET built == [q EXCEPT !.steps = @ \cup {Step("prompt", q.svc)}]
        called == InvokeBackend(built, result)
    IN  IF ~result.ok THEN [called EXCEPT !.pc = "failed"]
        ELSE IF q.svc.use_local_model
        THEN [called EXCEPT
                !.response = Some(_generate_local(AppQuery, None, None, result.text)),
                !.steps = @ \cup {Step("clean", q.svc)},
                !.pc = "done"]
        ELSE [called EXCEPT !.response = Some(result.text), !.pc = "done"]

\* POST /chat: the handler has no suspension point, it runs as one step
Chat(r) ==
    /\ Arrives(r)
    /\ \E result \in BackendResults(llm_service, FALSE) :
        LET q == GenerateResponse(Resolve([reqs[r] EXCEPT !.kind = "chat"], llm_service),
                                  result)
        IN  /\ reqs' = [reqs EXCEPT ![r] = q]
            /\ db' = IF q.pc = "done"
                     THEN Append(db, [req |-> r, bot_response |-> q.response.val])
                     ELSE db
    /\ UNCHANGED <<env, llm_service, nextId, lastCreate, switchLog, fnVars>>

\* POST /chat/stream: the handler returns the StreamingResponse around generate()
ChatStreamHandler(r) ==
    /\ Arrives(r)
    /\ reqs' = [reqs EXCEPT ![r] = [@ EXCEPT !.kind = "stream", !.pc = "streaming_response"]]
    /\ UNCHANGED <<env, llm_service, nextId, lastCreate, switchLog, db, fnVars>>

\* faulty variant of FragmentService: every fragment re-reads the global
FragmentService_global(q, global) == global

\* the instance a resumed generator takes its next fragment from
FragmentService(q, global) == q.svc

\* faulty variant of Advance: a stream that breaks off is saved like a completed one
Advance_save_on_failure(q, global) ==
    IF q.pending # <<>>
    THEN [q EXCEPT !.full_response = @ \o Head(q.pending),
                   !.yielded = Append(@, Head(q.pending)),
                   !.pending = Tail(@),
                   !.steps = @ \cup {Step("fragment", q.svc)},
                   !.pc = "yielded"]
    ELSE [q EXCEPT !.pc = "done"]

\* generate() resumed: the next fragment, the stream's failure, or its end
Advance(q, global) ==
    IF q.pending # <<>>
    THEN [q EXCEPT !.full_response = @ \o Head(q.pending),
                   !.yielded = Append(@, Head(q.pending)),
                   !.pending = Tail(@),
                   !.steps = @ \cup {Step("fragment", FragmentService(q, global))},
                   !.pc = "yielded"]
    ELSE IF q.stream_fails THEN [q EXCEPT !.pc = "failed"]
    ELSE [q EXCEPT !.pc = "done"]

\* generate_streaming_response on the resolved instance, up to its first yield
StartStreaming(q, result) ==
    LET built == [q EXCEPT !.steps = @ \cup {Step("prompt", q.svc)}]
        called == InvokeBackend(built, result)
    IN  IF ~result.ok THEN [called EXCEPT !.pc = "failed"]
        ELSE IF q.svc.use_local_model
        THEN [called EXCEPT
                !.pending = LocalFragments(
                                _generate_local(AppQuery, None, None, result.text)),
                !.steps = @ \cup {Step("clean", q.svc)}]
        ELSE [called EXCEPT !.pending = GroqFragments(result.deltas),
                            !.stream_fails = result.stream_fails]

SaveIfDone(r, q) ==
    db' = IF q.pc = "done"
          THEN Append(db, [req |-> r, bot_response |-> q.full_response])
          ELSE db

\* generate() first resumed: resolves llm_service and runs to the first yield
StreamStart(r) ==
    /\ reqs[r].pc = "streaming_response"
    /\ \E result \in BackendResults(llm_service, TRUE) :
        LET started == StartStreaming(Resolve(reqs[r], llm_service), result)
            q == IF started.pc = "failed" THEN started ELSE Advance(started, llm_service)
        IN  /\ reqs' = [reqs EXCEPT ![r] = q]
            /\ SaveIfDone(r, q)
    /\ UNCHANGED <<env, llm_service, nextId, lastCreate, switchLog, fnVars>>

\* generate() resumed after a yield
StreamResume(r) ==
    /\ reqs[r].pc = "yielded"
    /\ LET q == Advance(reqs[r], llm_service)
       IN  /\ reqs' = [reqs EXCEPT ![r] = q]
           /\ SaveIfDone(r, q)
    /\ UNCHANGED <<env, llm_service, nextId, lastCreate, switchLog, fnVars>>

NoSwitch == [use_local |-> FALSE, status |-> "none", message |-> "", model_type |-> ""]

\* POST /switch-model
SwitchModel(use_local) ==
    /\ nextId <= MaxInstances
    /\ IF use_local /\ ~env.path_exists
       THEN /\ switchLog' = [use_local |-> use_local, status |-> "error",
                             message |-> "", model_type |-> ""]
            /\ UNCHANGED <<llm_service, nextId, lastCreate>>
       ELSE LET created == create_llm_service(env)
                svc == Instance(nextId, created)
            IN  /\ lastCreate' = created
                /\ llm_service' = svc
                /\ nextId' = nextId + 1
                /\ switchLog' =
                       [use_local |-> use_local, status |-> "success",
                        message |-> IF use_local THEN "local" ELSE "groq",
                        model_type |-> IF svc.use_local_model THEN "local" ELSE "groq"]
    /\ UNCHANGED <<env, reqs, db, fnVars>>

(***************************************************************************)
(* Specifications                                                          *)
(***************************************************************************)
FnQuiet ==
    /\ fnIn = FnInput(None, None, <<>>)
    /\ fnOut = FnOutInit
    /\ fnPc = "off"

\* module load of app.py: llm_service = create_llm_service()
Init ==
    /\ env \in Envs
    /\ lastCreate = create_llm_service(env)
    /\ llm_service = Instance(1, lastCreate)
    /\ nextId = 2
    /\ switchLog = NoSwitch
    /\ reqs = [r \in Reqs |-> IdleReq]
    /\ db = <<>>
    /\ FnQuiet

Next ==
    \/ \E r \in Reqs : Chat(r)
    \/ \E r \in Reqs : ChatStreamHandler(r)
    \/ \E r \in Reqs : StreamStart(r)
    \/ \E r \in Reqs : StreamResume(r)
    \/ \E use_local \in BOOLEAN : SwitchModel(use_local)

Spec == Init /\ [][Next]_vars

AppQuiet ==
    /\ env = [use_local_env |-> FALSE, path_exists |-> FALSE, load_ok |-> FALSE]
    /\ lastCreate = create_llm_service(env)
    /\ llm_service = Instance(1, lastCreate)
    /\ nextId = 2
    /\ switchLog = NoSwitch
    /\ reqs = [r \in Reqs |-> IdleReq]
    /\ db = <<>>

InitPrompt ==
    /\ AppQuiet
    /\ fnIn \in {FnInput(c, h, <<>>) : c \in Contexts, h \in Histories}
    /\ fnOut = FnOutInit
    /\ fnPc = "prompt"

NextPrompt == BuildGenerateMessages \/ BuildStreamMessages \/ BuildLocalPrompt

SpecPrompt == InitPrompt /\ [][NextPrompt]_vars

InitLocal ==
    /\ AppQuiet
    /\ fnIn \in {FnInput(None, None, s) : s \in SampledOutputs}
    /\ fnOut = FnOutInit
    /\ fnPc = "local"

InitLong ==
    /\ AppQuiet
    /\ fnIn \in {FnInput(None, None, s) : s \in LongOutputs}
    /\ fnOut = FnOutInit
    /\ fnPc = "local"

NextLocal == GenerateLocal \/ StreamLocal \/ CleanAgain

SpecLocal == InitLocal /\ [][NextLocal]_vars

SpecLong == InitLong /\ [][NextLocal]_vars

(***************************************************************************)
(* Properties                                                              *)
(***************************************************************************)
SavedFor(r) == {i \in DOMAIN db : db[i].req = r}

\* C1: when local mode is requested and the model path is absent, the factory
\* returns a remote-mode service and no exception of the local initialization
\* escapes it.
FallbackToRemote ==
    (env.use_local_env /\ ~env.path_exists) =>
        /\ ~lastCreate.raised
        /\ ~lastCreate.use_local_model
        /\ ~llm_service.use_local_model

FallbackTaken ==
    /\ env.use_local_env /\ ~env.path_exists
    /\ lastCreate.fell_back
    /\ nextId > 2

\* C2: for a history longer than the truncation bound, the remote message lists
\* hold exactly its last 5 turns and the local prompt exactly its last 3, in
\* order, between the system/context part and the current query.
LastTurnsOnly ==
    LET h == fnIn.chat_history.val
        n == Len(h)
        c == IF Truthy(fnIn.context) THEN 3 ELSE 0
        Tail5(msgs) ==
            /\ Len(msgs) = GroqHistoryTurns + 2
            /\ msgs[1].role = "system"
            /\ \A i \in 1..GroqHistoryTurns : msgs[1 + i] = h[n - GroqHistoryTurns + i]
            /\ msgs[Len(msgs)] = Message("user", fnIn.query)
    IN  /\ (fnOut.generate_messages.some /\ n > GroqHistoryTurns)
                => Tail5(fnOut.generate_messages.val)
        /\ (fnOut.stream_messages.some /\ n > GroqHistoryTurns)
                => Tail5(fnOut.stream_messages.val)
        /\ (fnOut.prompt_parts.some /\ n > LocalHistoryTurns) =>
            LET parts == fnOut.prompt_parts.val
            IN  /\ Len(parts) = c + LocalHistoryTurns + 2
                /\ c = 3 => parts[2] = fnIn.context.val
                /\ \A i \in 1..LocalHistoryTurns :
                        parts[c + i] = RenderTurn(h[n - LocalHistoryTurns + i])
                /\ parts[Len(parts) - 1] = QUESTION_LABEL \o SPACE \o fnIn.query
                /\ parts[Len(parts)] = ANSWER_LABEL
                /\ fnOut.prompt.val = Join(parts, NEWLINE)

LongHistoryBuilt ==
    /\ fnPc = "done"
    /\ fnOut.prompt_parts.some
    /\ Len(fnIn.chat_history.val) > GroqHistoryTurns
    /\ Truthy(fnIn.context)
    /\ fnIn.chat_history.val[1] # fnIn.chat_history.val[Len(fnIn.chat_history.val)]

\* C3: for the same inputs and the same sampled output, the fragments of
\* generate_streaming_response concatenate to the string generate_response
\* returns.
StreamingConcatenationLaw ==
    fnOut.fragments.some => Concat(fnOut.fragments.val) = fnOut.response.val

\* C4: _clean_response applied to its own result returns that result.
CleanerIdempotent ==
    fnOut.cleaned_twice.some => fnOut.cleaned_twice.val = fnOut.response.val

\* C5: a request resolves llm_service once, and its prompt building, backend
\* call, cleaning and every fragment come from that one instance and mode,
\* whatever /switch-model does meanwhile.
OneInstancePerRequest ==
    \A r \in Reqs :
        /\ reqs[r].resolves <= 1
        /\ \A s \in reqs[r].steps :
                s.id = reqs[r].svc.id /\ s.local = reqs[r].svc.use_local_model

StreamedAcrossSwitch ==
    \E r \in Reqs :
        /\ reqs[r].kind = "stream"
        /\ reqs[r].pc = "done"
        /\ Len(reqs[r].yielded) >= 2
        /\ reqs[r].svc.id # llm_service.id

\* C6: a generation call invokes the backend exactly once; when the invocation
\* fails the request fails, with no second call, no return value, no fragment
\* and nothing saved.
NoInternalRetry ==
    \A r \in Reqs :
        /\ reqs[r].backend_calls <= 1
        /\ reqs[r].pc \in {"yielded", "done", "failed"} => reqs[r].backend_calls = 1
        /\ reqs[r].invoke_failed =>
                /\ reqs[r].pc = "failed"
                /\ ~reqs[r].response.some
                /\ reqs[r].yielded = <<>>
                /\ SavedFor(r) = {}

BackendFailedOnce ==
    \E r1, r2 \in Reqs :
        /\ reqs[r1].kind = "chat" /\ reqs[r1].invoke_failed
        /\ reqs[r2].kind = "stream" /\ reqs[r2].invoke_failed

\* C7: a local response longer than 500 characters, with a blank-line paragraph
\* break and no Question:/Answer: label, is cleaned to its first paragraph,
\* trimmed.
FirstParagraphOnly ==
    (fnOut.response.some /\ Len(fnOut.raw.val) > ParagraphLimit) =>
        LET raw == fnOut.raw.val
            breaks == {i \in 1..(Len(raw) - 1) : raw[i] = "\n" /\ raw[i + 1] = "\n"}
        IN  (/\ breaks # {}
             /\ ~Contains(raw, QUESTION_LABEL)
             /\ ~Contains(raw, ANSWER_LABEL))
                => fnOut.response.val = Strip(SubSeq(raw, 1, Min(breaks) - 1))

LongResponseCut ==
    /\ fnOut.response.some
    /\ Len(fnOut.raw.val) > ParagraphLimit
    /\ Contains(fnOut.raw.val, PARAGRAPH_BREAK)
    /\ Len(fnOut.response.val) < Len(fnOut.raw.val)
    /\ Contains(fnOut.raw.val, SPACE \o PARAGRAPH_BREAK)

\* C8: /chat/stream saves at most once, only when every fragment has been
\* yielded, with the concatenation of the yielded fragments; a stream that fails
\* is never saved.
StreamThenPersist ==
    \A r \in Reqs : reqs[r].kind = "stream" =>
        /\ Cardinality(SavedFor(r)) <= 1
        /\ \A i \in SavedFor(r) :
                /\ reqs[r].pc = "done"
                /\ reqs[r].pending = <<>>
                /\ db[i].bot_response = Concat(reqs[r].yielded)
        /\ (reqs[r].pc = "failed" \/ reqs[r].stream_fails \/ reqs[r].invoke_failed)
                => SavedFor(r) = {}

StreamSaved ==
    \E r1, r2 \in Reqs :
        /\ reqs[r1].kind = "stream" /\ reqs[r1].pc = "done"
        /\ Len(reqs[r1].yielded) >= 2 /\ SavedFor(r1) # {}
        /\ reqs[r2].kind = "stream" /\ reqs[r2].pc = "failed"
        /\ Len(reqs[r2].yielded) >= 2

\* C9: after a /switch-model call that returns success, the active service's
\* mode is the requested one, so the message agrees with model_type.
SwitchHonoursRequest ==
    switchLog.status = "success" =>
        /\ llm_service.use_local_model = switchLog.use_local
        /\ switchLog.message = switchLog.model_type

\* C10: for identical inputs _stream_groq sends the same message list as
\* _generate_groq.
SyncStreamMessagesEqual ==
    fnOut.stream_messages.some =>
        fnOut.stream_messages.val = fnOut.generate_messages.val

====
